---- MODULE Spec2Model ----
(***************************************************************************)
(* A model of the local timer / session subsystem of fizzy-timer:          *)
(*   - the Timer Engine (apps/web/src/lib/hooks/useTimer.ts),              *)
(*   - the Account and Session repositories (lib/db/indexed-db.ts),        *)
(*   - the Session Aggregation view (lib/hooks/useSessions.ts).            *)
(* Wall-clock time is the variable now (milliseconds).  One action is one  *)
(* handler call together with the render and the effects it triggers.      *)
(***************************************************************************)
EXTENDS Integers, Sequences, FiniteSets, TLC

(***************************************************************************)
(* Bounds of the model                                                     *)
(***************************************************************************)
MaxNow == 6500

\* amounts (ms) by which the wall clock advances in one step
Steps == {500, 1000}

\* wall-clock instants at which the process may come up
StartInstants == {1000}

(***************************************************************************)
(* Program constants                                                       *)
(***************************************************************************)
TickMs == 1000

\* the period of the periodic snapshot save
SaveMs == 5000

MsPerSecond == 1000

\* JavaScript null / undefined in a numeric or object position
Null == -1

NoData == [card |-> "null", board |-> "null", previousElapsed |-> Null]

\* JavaScript truthiness of a number | null | undefined
Truthy(n) == n # Null /\ n # 0

\* x || 0
OrZero(n) == IF Truthy(n) THEN n ELSE 0

\* Math.floor(ms / 1000)
FloorSeconds(ms) == ms \div MsPerSecond

\* Math.max(a, b), Math.min(a, b)
Max(a, b) == IF a >= b THEN a ELSE b

Min(a, b) == IF a <= b THEN a ELSE b

(***************************************************************************)
(* Inputs of the timer operations                                          *)
(***************************************************************************)
TimerDatas ==
    { [card |-> "c1", board |-> "b1", previousElapsed |-> Null],
      [card |-> "c2", board |-> "b1", previousElapsed |-> 4] }

\* durationSeconds argument of start(): undefined, 0, or a target
DurationArgs == {Null, 0, 2, 3}

TimerStates == {"idle", "running", "paused", "completed"}

TimerModes == {"countdown", "stopwatch"}

VARIABLES
    now,                    \* Date.now()
    hidden,                 \* document.hidden: the tab is in the background
    state,                  \* useState<TimerState>
    mode,                   \* useState<TimerMode>
    currentSessionElapsed,  \* useState(0)
    data,                   \* useState<TimerData | null>
    startTimeRef,           \* useRef<number | null>
    stateRef,               \* useRef<TimerState>
    previousElapsedRef,     \* useRef(0)
    durationRef,            \* useRef<number | undefined>
    intervalRef,            \* due time of the one-second interval, or Null
    saveInterval,           \* due time of the periodic save interval, or Null
    snapshot,               \* localStorage["fizzy-timer-state"]: <<>> or <<blob>>
    lastOp,                 \* the operation that produced the current state
    runMs,                  \* history: wall-clock ms spent running in this run
    clean,                  \* history: the run is start (pause resume)* [stop]
    accounts,               \* db.accounts: id -> StoredAccount
    sessions,               \* db.sessions: id -> Session
    tx,                     \* the read-write transaction of setActive
    observed,               \* the last repository call: what it was given and returned
    view,                   \* grouped: the aggregated history view
    focus,                  \* the focus route: stop dialog, save failures
    sheet                   \* the useTimer instance of the settings sheet

timerVars == <<now, hidden, state, mode, currentSessionElapsed, data,
               startTimeRef, stateRef, previousElapsedRef, durationRef,
               intervalRef, saveInterval, snapshot, lastOp, runMs, clean>>

\* the in-memory timer, its snapshot and its history variables
timerState == <<hidden, state, mode, currentSessionElapsed, data,
                startTimeRef, stateRef, previousElapsedRef, durationRef,
                intervalRef, saveInterval, snapshot, runMs, clean>>

dbVars == <<accounts, sessions, tx, observed, view>>

vars == <<timerVars, dbVars, focus, sheet>>

(***************************************************************************)
(* The in-memory timer as one record                                       *)
(***************************************************************************)
Mem ==
    [state |-> state, mode |-> mode, elapsed |-> currentSessionElapsed,
     data |-> data, startTime |-> startTimeRef,
     previousElapsed |-> previousElapsedRef, duration |-> durationRef]

\* the values of useState / useRef at construction
InitialMem ==
    [state |-> "idle", mode |-> "stopwatch", elapsed |-> 0,
     data |-> NoData, startTime |-> Null,
     previousElapsed |-> 0, duration |-> Null]

\* saveTimerState: the JSON blob written under TIMER_STORAGE_KEY
saveTimerState(m, t) ==
    [state |-> m.state, data |-> m.data, startTime |-> m.startTime,
     elapsed |-> m.elapsed, previousElapsed |-> m.previousElapsed,
     mode |-> m.mode, duration |-> m.duration, savedAt |-> t]

\* getSavedTimerState
getSavedTimerState(snap, t) ==
    IF snap # <<>>
    THEN LET parsed == snap[1] IN
         IF Truthy(parsed.startTime) /\ parsed.state = "running"
         THEN [data |-> parsed.data,
               startTime |-> parsed.startTime,
               elapsed |-> FloorSeconds(t - parsed.startTime),
               previousElapsed |-> OrZero(parsed.previousElapsed),
               mode |-> parsed.mode,
               duration |-> parsed.duration]
         ELSE [data |-> parsed.data,
               startTime |-> Null,
               elapsed |-> OrZero(parsed.elapsed),
               previousElapsed |-> OrZero(parsed.previousElapsed),
               mode |-> parsed.mode,
               duration |-> parsed.duration]
    ELSE [data |-> NoData, startTime |-> Null, elapsed |-> 0,
          previousElapsed |-> 0, mode |-> "stopwatch", duration |-> Null]

\* the restore effect omitting the expiry check (a plausible slip)
RestoreEffectNoExpiry(saved, t) ==
    IF saved.data # NoData
    THEN LET base == [InitialMem EXCEPT !.data = saved.data,
                                        !.previousElapsed = saved.previousElapsed,
                                        !.mode = saved.mode,
                                        !.duration = saved.duration]
         IN IF Truthy(saved.startTime)
            THEN [base EXCEPT !.state = "running",
                              !.startTime = saved.startTime,
                              !.elapsed = FloorSeconds(t - saved.startTime)]
            ELSE IF saved.elapsed > 0
                 THEN [base EXCEPT !.state = "paused", !.elapsed = saved.elapsed]
                 ELSE base
    ELSE InitialMem

\* the restore effect of useTimer (runs once on mount)
RestoreEffect(saved, t) ==
    IF saved.data # NoData
    THEN LET base == [InitialMem EXCEPT !.data = saved.data,
                                        !.previousElapsed = saved.previousElapsed,
                                        !.mode = saved.mode,
                                        !.duration = saved.duration]
         IN IF Truthy(saved.startTime)
            THEN LET currentElapsed == FloorSeconds(t - saved.startTime)
                     running == [base EXCEPT !.state = "running",
                                             !.startTime = saved.startTime,
                                             !.elapsed = currentElapsed]
                 IN IF saved.mode = "countdown" /\ Truthy(saved.duration)
                       /\ saved.duration - currentElapsed <= 0
                    THEN [running EXCEPT !.elapsed = saved.duration,
                                         !.state = "completed",
                                         !.startTime = Null]
                    ELSE running
            ELSE IF saved.elapsed > 0
                 THEN [base EXCEPT !.state = "paused", !.elapsed = saved.elapsed]
                 ELSE base
    ELSE InitialMem

\* the interval callback without the clamp to the target (a plausible slip)
TickCallbackNoClamp(m, t) ==
    IF Truthy(m.startTime)
    THEN LET newElapsed == FloorSeconds(t - m.startTime) IN
         IF m.mode = "countdown" /\ Truthy(m.duration) /\ newElapsed >= m.duration
         THEN [m EXCEPT !.elapsed = newElapsed, !.state = "completed",
                        !.startTime = Null]
         ELSE [m EXCEPT !.elapsed = newElapsed]
    ELSE m

\* the body of the one-second interval callback
TickCallback(m, t) ==
    IF Truthy(m.startTime)
    THEN LET newElapsed == FloorSeconds(t - m.startTime) IN
         IF m.mode = "countdown" /\ Truthy(m.duration) /\ newElapsed >= m.duration
         THEN [m EXCEPT !.elapsed = m.duration, !.state = "completed",
                        !.startTime = Null]
         ELSE [m EXCEPT !.elapsed = newElapsed]
    ELSE m

\* resync(): recompute the elapsed time from the start instant
ResyncCall(m, t) ==
    IF m.state = "running" /\ Truthy(m.startTime)
    THEN LET newElapsed == FloorSeconds(t - m.startTime) IN
         IF m.mode = "countdown" /\ Truthy(m.duration) /\ newElapsed >= m.duration
         THEN [m EXCEPT !.elapsed = m.duration, !.state = "completed",
                        !.startTime = Null]
         ELSE [m EXCEPT !.elapsed = newElapsed]
    ELSE m

\* start(timerData, durationSeconds)
StartCall(m, timerData, durationSeconds, t) ==
    [m EXCEPT !.previousElapsed = OrZero(timerData.previousElapsed),
              !.mode = IF Truthy(durationSeconds) THEN "countdown" ELSE "stopwatch",
              !.duration = durationSeconds,
              !.state = "running",
              !.data = timerData,
              !.elapsed = 0,
              !.startTime = t]

\* pause() without the state check (a plausible slip)
PauseCallNoGuard(m) ==
    [m EXCEPT !.state = "paused", !.startTime = Null]

\* pause()
PauseCall(m) ==
    IF m.state = "running"
    THEN [m EXCEPT !.state = "paused", !.startTime = Null]
    ELSE m

\* resume() taking the instant of the call as the start instant (a plausible
\* slip)
ResumeCallFromNow(m, t) ==
    IF m.state = "paused"
    THEN [m EXCEPT !.state = "running", !.startTime = t]
    ELSE m

\* resume()
ResumeCall(m, t) ==
    IF m.state = "paused"
    THEN [m EXCEPT !.state = "running",
                   !.startTime = t - m.elapsed * MsPerSecond]
    ELSE m

\* stop()
StopCall(m) ==
    [m EXCEPT !.state = "completed", !.startTime = Null]

\* reset()
ResetCall(m) == InitialMem

\* setMode(newMode)
SetModeCall(m, newMode) ==
    IF m.state = "idle" THEN [m EXCEPT !.mode = newMode] ELSE m

\* totalElapsed
totalElapsed == currentSessionElapsed + previousElapsedRef

\* remaining
remaining ==
    IF mode = "countdown" /\ Truthy(durationRef)
    THEN Max(0, durationRef - currentSessionElapsed)
    ELSE 0

\* n.toString().padStart(2, "0")
Pad2(n) == IF n < 10 THEN "0" \o ToString(n) ELSE ToString(n)

\* formattedTime
FormatTime(timeToFormat) ==
    LET hours == timeToFormat \div 3600
        minutes == (timeToFormat % 3600) \div 60
        seconds == timeToFormat % 60
    IN IF hours > 0
       THEN Pad2(hours) \o ":" \o Pad2(minutes) \o ":" \o Pad2(seconds)
       ELSE Pad2(minutes) \o ":" \o Pad2(seconds)

formattedTime == FormatTime(IF mode = "countdown" THEN remaining ELSE totalElapsed)

\* the save effect (deps state, data, mode): the snapshot after the render
SaveEffect(prev, m, fresh, snapBase, t) ==
    IF (m.state # prev.state \/ m.data # prev.data \/ m.mode # prev.mode
        \/ fresh)
       /\ m.state # "idle"
    THEN <<saveTimerState(m, t)>>
    ELSE snapBase

\* the tick effect keeping its interval when the timer leaves running (a
\* plausible slip)
TickEffectNoCleanup(prev, m, interval, t) ==
    IF m.state # prev.state \/ m.mode # prev.mode
    THEN (IF m.state = "running" THEN t + TickMs ELSE interval)
    ELSE interval

\* the tick effect (deps state, mode): the due time of the one-second
\* interval after the render; the cleanup clears the previous interval
TickEffect(prev, m, interval, t) ==
    IF m.state # prev.state \/ m.mode # prev.mode
    THEN (IF m.state = "running" THEN t + TickMs ELSE Null)
    ELSE interval

\* the periodic save effect (deps state, data, currentSessionElapsed, mode):
\* the due time of the five-second interval after the render
PeriodicSaveEffect(prev, m, fresh, saving, t) ==
    IF m.state # prev.state \/ m.data # prev.data \/ m.mode # prev.mode
       \/ m.elapsed # prev.elapsed \/ fresh
    THEN (IF m.state = "running" THEN t + SaveMs ELSE Null)
    ELSE saving

(***************************************************************************)
(* Render: the new in-memory values become visible and the effects whose   *)
(* dependencies changed run (ref sync, snapshot save, tick interval).      *)
(*   prev      the values of the previous render                           *)
(*   m         the values after the handler                                *)
(*   fresh     the data object is a new reference though equal in value    *)
(*   snapBase  the stored snapshot after the handler itself                *)
(*   interval  the interval handle after the handler itself                *)
(*   saving    the periodic save interval before the effects run           *)
(***************************************************************************)
Render(prev, m, fresh, snapBase, interval, saving) ==
    /\ state' = m.state
    /\ stateRef' = m.state
    /\ mode' = m.mode
    /\ currentSessionElapsed' = m.elapsed
    /\ data' = m.data
    /\ startTimeRef' = m.startTime
    /\ previousElapsedRef' = m.previousElapsed
    /\ durationRef' = m.duration
    /\ snapshot' = SaveEffect(prev, m, fresh, snapBase, now)
    /\ intervalRef' = TickEffect(prev, m, interval, now)
    /\ saveInterval' = PeriodicSaveEffect(prev, m, fresh, saving, now)

\* a tick of the one-second interval is due
TickDue == intervalRef # Null /\ now >= intervalRef

\* a firing of the periodic save interval is due
SaveDue == saveInterval # Null /\ now >= saveInterval

\* the user can act: the tab is visible and no due timer callback is pending
UserCanAct == ~hidden /\ ~TickDue /\ ~SaveDue

(***************************************************************************)
(* Timer actions                                                           *)
(***************************************************************************)
\* the wall clock may advance by d up to the given limit: in a visible tab
\* no timer callback is late
CanAdvance(d, limit) ==
    /\ now + d <= limit
    /\ hidden \/ intervalRef = Null \/ now + d <= intervalRef
    /\ hidden \/ saveInterval = Null \/ now + d <= saveInterval

Advance ==
    /\ \E d \in Steps :
         /\ CanAdvance(d, MaxNow)
         /\ now' = now + d
         /\ runMs' = IF state = "running" /\ clean THEN runMs + d ELSE runMs
    /\ UNCHANGED <<hidden, state, mode, currentSessionElapsed, data,
                   startTimeRef, stateRef, previousElapsedRef, durationRef,
                   intervalRef, saveInterval, snapshot, lastOp, clean>>
    /\ UNCHANGED <<dbVars, focus, sheet>>

Tick ==
    /\ TickDue
    /\ LET m == TickCallback(Mem, now) IN
         Render(Mem, m, FALSE, snapshot, now + TickMs, saveInterval)
    /\ lastOp' = "tick"
    /\ UNCHANGED <<now, hidden, runMs, clean>>
    /\ UNCHANGED <<dbVars, focus, sheet>>

\* the callback of the periodic save interval
SaveTick ==
    /\ SaveDue
    /\ snapshot' = <<saveTimerState(Mem, now)>>
    /\ saveInterval' = now + SaveMs
    /\ lastOp' = "save"
    /\ UNCHANGED <<now, hidden, state, mode, currentSessionElapsed, data,
                   startTimeRef, stateRef, previousElapsedRef, durationRef,
                   intervalRef, runMs, clean>>
    /\ UNCHANGED <<dbVars, focus, sheet>>

start ==
    /\ UserCanAct
    /\ \E timerData \in TimerDatas, durationSeconds \in DurationArgs :
       \E fresh \in (IF timerData = data THEN BOOLEAN ELSE {FALSE}) :
         Render(Mem, StartCall(Mem, timerData, durationSeconds, now), fresh,
                snapshot, intervalRef, saveInterval)
    /\ lastOp' = "start"
    /\ runMs' = 0
    /\ clean' = (state = "idle")
    /\ UNCHANGED <<now, hidden>>
    /\ UNCHANGED <<dbVars, focus, sheet>>

pause ==
    /\ UserCanAct
    /\ Render(Mem, PauseCall(Mem), FALSE, snapshot, intervalRef, saveInterval)
    /\ lastOp' = "pause"
    /\ UNCHANGED <<now, hidden, runMs, clean>>
    /\ UNCHANGED <<dbVars, focus, sheet>>

resume ==
    /\ UserCanAct
    /\ Render(Mem, ResumeCall(Mem, now), FALSE, snapshot, intervalRef,
              saveInterval)
    /\ lastOp' = "resume"
    /\ UNCHANGED <<now, hidden, runMs, clean>>
    /\ UNCHANGED <<dbVars, focus, sheet>>

stop ==
    /\ UserCanAct
    /\ Render(Mem, StopCall(Mem), FALSE, snapshot, Null, saveInterval)
    /\ lastOp' = "stop"
    /\ UNCHANGED <<now, hidden, runMs, clean>>
    /\ UNCHANGED <<dbVars, focus, sheet>>

reset ==
    /\ UserCanAct
    /\ Render(Mem, ResetCall(Mem), FALSE, <<>>, Null, saveInterval)
    /\ lastOp' = "reset"
    /\ runMs' = 0
    /\ clean' = FALSE
    /\ UNCHANGED <<now, hidden>>
    /\ UNCHANGED <<dbVars, focus, sheet>>

resync ==
    /\ UserCanAct
    /\ Render(Mem, ResyncCall(Mem, now), FALSE, snapshot, intervalRef,
              saveInterval)
    /\ lastOp' = "resync"
    /\ runMs' = 0
    /\ clean' = FALSE
    /\ UNCHANGED <<now, hidden>>
    /\ UNCHANGED <<dbVars, focus, sheet>>

setMode ==
    /\ UserCanAct
    /\ \E newMode \in TimerModes :
         Render(Mem, SetModeCall(Mem, newMode), FALSE, snapshot, intervalRef,
                saveInterval)
    /\ lastOp' = "setMode"
    /\ runMs' = 0
    /\ clean' = FALSE
    /\ UNCHANGED <<now, hidden>>
    /\ UNCHANGED <<dbVars, focus, sheet>>

\* the tab goes to the background: interval callbacks are no longer on time
Hide ==
    /\ ~hidden
    /\ hidden' = TRUE
    /\ lastOp' = "hide"
    /\ runMs' = 0
    /\ clean' = FALSE
    /\ UNCHANGED <<now, state, mode, currentSessionElapsed, data,
                   startTimeRef, stateRef, previousElapsedRef, durationRef,
                   intervalRef, saveInterval, snapshot>>
    /\ UNCHANGED <<dbVars, focus, sheet>>

\* handleVisibilityChange of the focus route: resync when running
Show ==
    /\ hidden
    /\ hidden' = FALSE
    /\ Render(Mem, IF state = "running" THEN ResyncCall(Mem, now) ELSE Mem,
              FALSE, snapshot, intervalRef, saveInterval)
    /\ lastOp' = "show"
    /\ UNCHANGED <<now, runMs, clean>>
    /\ UNCHANGED <<dbVars, focus, sheet>>

\* the page is reloaded: the in-memory timer is rebuilt from the snapshot
Reload ==
    /\ Render(InitialMem, RestoreEffect(getSavedTimerState(snapshot, now), now),
              FALSE, snapshot, Null, Null)
    /\ hidden' = FALSE
    /\ lastOp' = "reload"
    /\ runMs' = 0
    /\ clean' = FALSE
    /\ UNCHANGED now
    /\ UNCHANGED <<dbVars, focus, sheet>>

TimerInit ==
    /\ now \in StartInstants
    /\ hidden = FALSE
    /\ state = InitialMem.state
    /\ stateRef = InitialMem.state
    /\ mode = InitialMem.mode
    /\ currentSessionElapsed = InitialMem.elapsed
    /\ data = InitialMem.data
    /\ startTimeRef = InitialMem.startTime
    /\ previousElapsedRef = InitialMem.previousElapsed
    /\ durationRef = InitialMem.duration
    /\ intervalRef = Null
    /\ saveInterval = Null
    /\ snapshot = <<>>
    /\ lastOp = "init"
    /\ runMs = 0
    /\ clean = FALSE

TimerNext ==
    \/ Advance
    \/ Tick
    \/ SaveTick
    \/ start
    \/ pause
    \/ resume
    \/ stop
    \/ reset
    \/ resync
    \/ setMode
    \/ Hide
    \/ Show
    \/ Reload

(***************************************************************************)
(* Account and Session repositories (lib/db/indexed-db.ts)                 *)
(***************************************************************************)
DbMaxNow == 3000

MaxSessions == 2

\* the slugs of the remote accounts, in primary-key order
AccountOrder == <<"a", "b", "c">>

\* the slugs passed to the repository calls
AccountSlugs == {AccountOrder[1], AccountOrder[2]}

\* the slugs of the accounts connected through the account mutations
MutationSlugs == {AccountOrder[i] : i \in 1..Len(AccountOrder)}

SessionIds == 1..MaxSessions

\* the set of elements of a sequence
Range(seq) == {seq[i] : i \in 1..Len(seq)}

\* the ids of the rows of a list
IdsOf(list) == {list[i].id : i \in 1..Len(list)}

\* no setActive transaction has been started
NoTx == [pc |-> "none", target |-> "null", work |-> <<>>, at |-> Null,
         one |-> FALSE]

NoObservation == [op |-> "none", during |-> FALSE, actives |-> 0,
                  ids |-> <<>>, owners |-> {}, active |-> "null",
                  arg |-> "null", sid |-> Null, count |-> 0]

\* db.accounts.toArray(): the rows in primary-key order
AccountsToArray(store) ==
    LET keys == SelectSeq(AccountOrder, LAMBDA k : k \in DOMAIN store)
    IN [i \in 1..Len(keys) |-> store[keys[i]]]

\* db.sessions.toArray(): the rows in primary-key order
SessionsToArray(store) ==
    LET ids == DOMAIN store
        nth(p) == CHOOSE k \in ids : Cardinality({j \in ids : j < k}) = p - 1
    IN [p \in 1..Cardinality(ids) |-> store[nth(p)]]

\* array.find(pred), given the elements satisfying pred in array order: the
\* first of them, as <<>> or <<e>>
Find(hits) ==
    IF hits = <<>> THEN <<>> ELSE <<hits[1]>>

\* the accounts a reader sees if setActive wrote outside a transaction
DirtyRead(store, t) ==
    IF t.pc \in {"update", "commit"} THEN t.work ELSE store

\* the accounts a reader sees: setActive runs in db.transaction("rw", ...),
\* so its writes are visible only once it has committed
CommittedRead(store, t) == store

\* accountOps.getActive
AccountGetActive(store) ==
    Find(SelectSeq(AccountsToArray(store), LAMBDA a : a.isActive))

\* getActiveAccountId
getActiveAccountId(store) ==
    LET activeAccount == Find(SelectSeq(AccountsToArray(store), LAMBDA a : a.isActive))
    IN IF activeAccount = <<>> THEN "null" ELSE activeAccount[1].id

\* getAll without the sort (a plausible slip)
SortNone(seq, key) == seq

\* array.sort((a, b) => b[key] - a[key]): descending by the field key; the
\* sort is stable, so rows with equal keys keep their order
SortDesc(seq, key) ==
    LET n == Len(seq)
        pos(i) == 1 + Cardinality({j \in 1..n :
                        \/ seq[j][key] - seq[i][key] > 0
                        \/ (seq[j][key] = seq[i][key] /\ j < i)})
    IN [p \in 1..n |-> seq[CHOOSE i \in 1..n : pos(i) = p]]

\* accountOps.getAll
AccountGetAll(store) ==
    SortDesc(AccountsToArray(store), "lastUsed")

\* sessionOps.getAll without the account filter (a plausible slip)
SessionGetAllUnfiltered(accs, store, accountId) ==
    LET targetAccountId ==
            IF accountId # "null" THEN accountId ELSE getActiveAccountId(accs)
    IN IF targetAccountId = "null" THEN <<>>
       ELSE SortDesc(SessionsToArray(store), "startTime")

\* sessionOps.getAll(accountId?)
SessionGetAll(accs, store, accountId) ==
    LET targetAccountId ==
            IF accountId # "null" THEN accountId ELSE getActiveAccountId(accs)
    IN IF targetAccountId = "null" THEN <<>>
       ELSE SortDesc(SelectSeq(SessionsToArray(store),
                               LAMBDA x : x.accountId = targetAccountId),
                     "startTime")

\* db.accounts.put(row) / db.sessions.put(row)
Put(store, row) ==
    [k \in DOMAIN store \cup {row.id} |-> IF k = row.id THEN row ELSE store[k]]

\* the deletion of a row leaving the table as it is (a plausible slip)
DeleteNothing(store, key) == store

\* db.accounts.delete(key) / db.sessions.delete(key)
Delete(store, key) ==
    [k \in DOMAIN store \ {key} |-> store[k]]

\* db.sessions.get(id): the row as <<>> or <<row>>
SessionGetById(store, id) ==
    IF id \in DOMAIN store THEN <<store[id]>> ELSE <<>>

RECURSIVE DeleteAllLoop(_, _, _)
\* the loop of deleteAll over the rows read by toArray()
DeleteAllLoop(store, rows, targetAccountId) ==
    IF rows = <<>> THEN store
    ELSE DeleteAllLoop(IF Head(rows).accountId = targetAccountId
                       THEN Delete(store, Head(rows).id)
                       ELSE store,
                       Tail(rows), targetAccountId)

\* deleteAll without the test of the account in the loop (a plausible slip)
SessionDeleteAllUnfiltered(accs, store) ==
    IF getActiveAccountId(accs) # "null" THEN <<>> ELSE store

\* sessionOps.deleteAll(): the session table after the call
SessionDeleteAllOf(accs, store) ==
    LET targetAccountId == getActiveAccountId(accs)
    IN IF targetAccountId # "null"
       THEN DeleteAllLoop(store, SessionsToArray(store), targetAccountId)
       ELSE store

\* sessionOps.getUnsynced()
SessionGetUnsynced(accs, store) ==
    LET targetAccountId == getActiveAccountId(accs)
    IN IF targetAccountId = "null" THEN <<>>
       ELSE SelectSeq(SessionsToArray(store),
                      LAMBDA x : x.accountId = targetAccountId /\ ~x.synced)

\* markAsSynced as an upsert, which creates a row for an unknown id (a
\* plausible slip)
MarkSyncedUpsert(store, id, t) ==
    IF id \in DOMAIN store
    THEN [store EXCEPT ![id].synced = TRUE]
    ELSE Put(store, [id |-> id, accountId |-> "null", cardId |-> "null",
                     boardId |-> "null", startTime |-> t, endTime |-> Null,
                     duration |-> 0, synced |-> TRUE])

\* db.sessions.update(id, { synced: true }), which changes nothing when the
\* key is not in the table
MarkSynced(store, id, t) ==
    IF id \in DOMAIN store
    THEN [store EXCEPT ![id].synced = TRUE]
    ELSE store

\* setActive without the deactivation of the other rows (a plausible slip)
DeactivateNone(store) == store

\* db.accounts.toCollection().modify({ isActive: false })
DeactivateAll(store) ==
    [k \in DOMAIN store |-> [store[k] EXCEPT !.isActive = FALSE]]

\* db.accounts.update(accountId, { isActive: true, lastUsed: Date.now() }),
\* which changes nothing when the key is not in the table
Activate(store, accountId, t) ==
    IF accountId \in DOMAIN store
    THEN [store EXCEPT ![accountId].isActive = TRUE, ![accountId].lastUsed = t]
    ELSE store

\* the ids of the stored accounts whose isActive flag is set
ActiveIds(store) == {k \in DOMAIN store : store[k].isActive}

\* a setActive transaction has started and not yet committed
TxOpen == tx.pc \in {"modify", "update", "commit"}

(***************************************************************************)
(* Repository actions                                                      *)
(***************************************************************************)
DbAdvance ==
    /\ now + MsPerSecond <= DbMaxNow
    /\ now' = now + MsPerSecond
    /\ observed' = NoObservation
    /\ UNCHANGED <<accounts, sessions, tx, view>>
    /\ UNCHANGED <<timerState, lastOp, focus, sheet>>

\* accountOps.add(account)
AccountAdd ==
    /\ ~TxOpen
    /\ \E slug \in AccountSlugs, isActive \in BOOLEAN :
         accounts' = Put(accounts, [id |-> slug, slug |-> slug,
                                    isActive |-> isActive, lastUsed |-> now])
    /\ observed' = NoObservation
    /\ tx' = NoTx
    /\ UNCHANGED <<now, sessions, view>>
    /\ UNCHANGED <<timerState, lastOp, focus, sheet>>

\* accountOps.remove(accountId)
AccountRemove(accountId) ==
    /\ ~TxOpen
    /\ accounts' = Delete(accounts, accountId)
    /\ observed' = [NoObservation EXCEPT
                      !.op = "remove",
                      !.arg = accountId,
                      !.count = Cardinality(DOMAIN accounts \ DOMAIN accounts')]
    /\ tx' = NoTx
    /\ UNCHANGED <<now, sessions, view>>
    /\ UNCHANGED <<timerState, lastOp, focus, sheet>>

\* accountOps.setActive(accountId): the transaction begins
SetActiveBegin ==
    /\ ~TxOpen
    /\ \E accountId \in AccountSlugs :
         tx' = [pc |-> "modify", target |-> accountId, work |-> accounts,
                at |-> Null,
                one |-> (Cardinality(ActiveIds(accounts)) = 1
                         /\ accountId \in DOMAIN accounts)]
    /\ observed' = NoObservation
    /\ UNCHANGED <<now, accounts, sessions, view>>
    /\ UNCHANGED <<timerState, lastOp, focus, sheet>>

\* accountOps.setActive: deactivate all accounts (inside the transaction)
SetActiveModify ==
    /\ tx.pc = "modify"
    /\ tx' = [tx EXCEPT !.pc = "update", !.work = DeactivateAll(tx.work)]
    /\ observed' = NoObservation
    /\ UNCHANGED <<now, accounts, sessions, view>>
    /\ UNCHANGED <<timerState, lastOp, focus, sheet>>

\* accountOps.setActive: activate the selected account (inside the transaction)
SetActiveUpdate ==
    /\ tx.pc = "update"
    /\ tx' = [tx EXCEPT !.pc = "commit", !.at = now,
                        !.work = Activate(tx.work, tx.target, now)]
    /\ observed' = NoObservation
    /\ UNCHANGED <<now, accounts, sessions, view>>
    /\ UNCHANGED <<timerState, lastOp, focus, sheet>>

\* accountOps.setActive: the transaction commits and the call completes
SetActiveCommit ==
    /\ tx.pc = "commit"
    /\ accounts' = tx.work
    /\ tx' = [tx EXCEPT !.pc = "done", !.work = <<>>]
    /\ observed' = NoObservation
    /\ UNCHANGED <<now, sessions, view>>
    /\ UNCHANGED <<timerState, lastOp, focus, sheet>>

\* accountOps.getActive() called by a concurrent reader
ReadGetActive ==
    /\ LET seen == CommittedRead(accounts, tx)
           active == AccountGetActive(seen)
       IN observed' = [NoObservation EXCEPT
                         !.op = "getActive",
                         !.during = (TxOpen /\ tx.one),
                         !.actives = Len(active),
                         !.active = IF active = <<>> THEN "null"
                                    ELSE active[1].id]
    /\ UNCHANGED <<now, accounts, sessions, tx, view>>
    /\ UNCHANGED <<timerState, lastOp, focus, sheet>>

\* accountOps.getAll() called by a concurrent reader
ReadGetAll ==
    /\ LET seen == CommittedRead(accounts, tx)
           all == AccountGetAll(seen)
       IN observed' = [NoObservation EXCEPT
                         !.op = "getAll",
                         !.during = (TxOpen /\ tx.one),
                         !.actives = Len(SelectSeq(all, LAMBDA a : a.isActive)),
                         !.ids = [i \in 1..Len(all) |-> all[i].id]]
    /\ UNCHANGED <<now, accounts, sessions, tx, view>>
    /\ UNCHANGED <<timerState, lastOp, focus, sheet>>

\* sessionOps.save(session)
SessionSave ==
    /\ \E id \in SessionIds, accountId \in AccountSlugs :
         sessions' = Put(sessions,
                         [id |-> id, accountId |-> accountId, cardId |-> "c1",
                          boardId |-> "b1", startTime |-> now,
                          endTime |-> now, duration |-> 10, synced |-> FALSE])
    /\ observed' = NoObservation
    /\ UNCHANGED <<now, accounts, tx, view>>
    /\ UNCHANGED <<timerState, lastOp, focus, sheet>>

\* sessionOps.delete(id)
SessionDelete ==
    /\ \E id \in SessionIds : sessions' = Delete(sessions, id)
    /\ observed' = NoObservation
    /\ UNCHANGED <<now, accounts, tx, view>>
    /\ UNCHANGED <<timerState, lastOp, focus, sheet>>

\* sessionOps.deleteAll()
SessionDeleteAll ==
    /\ sessions' = SessionDeleteAllOf(accounts, sessions)
    /\ observed' = [NoObservation EXCEPT
                      !.op = "deleteAll",
                      !.arg = getActiveAccountId(accounts),
                      !.count = Cardinality(DOMAIN sessions \ DOMAIN sessions')]
    /\ UNCHANGED <<now, accounts, tx, view>>
    /\ UNCHANGED <<timerState, lastOp, focus, sheet>>

\* sessionOps.markAsSynced(id)
SessionMarkAsSynced(id) ==
    /\ sessions' = MarkSynced(sessions, id, now)
    /\ observed' = [NoObservation EXCEPT !.op = "markAsSynced", !.sid = id]
    /\ UNCHANGED <<now, accounts, tx, view>>
    /\ UNCHANGED <<timerState, lastOp, focus, sheet>>

\* sessionOps.getAll() with no argument
ReadSessions ==
    /\ LET all == SessionGetAll(accounts, sessions, "null")
           active == AccountGetActive(accounts)
       IN observed' = [NoObservation EXCEPT
                         !.op = "sessions",
                         !.ids = [i \in 1..Len(all) |-> all[i].id],
                         !.owners = {all[i].accountId : i \in 1..Len(all)},
                         !.active = IF active = <<>> THEN "null"
                                    ELSE active[1].id]
    /\ UNCHANGED <<now, accounts, sessions, tx, view>>
    /\ UNCHANGED <<timerState, lastOp, focus, sheet>>

\* no settings sheet is mounted
Unmounted ==
    [mounted |-> FALSE, mem |-> InitialMem, interval |-> Null, saving |-> Null]

\* the focus route as mounted: no stop dialog, no failed save
NoFocus == [confirm |-> FALSE, failed |-> FALSE]

DbInit ==
    /\ accounts = <<>>
    /\ sessions = <<>>
    /\ tx = NoTx
    /\ observed = NoObservation
    /\ view = <<>>

DbNext ==
    \/ DbAdvance
    \/ AccountAdd
    \/ \E accountId \in AccountSlugs : AccountRemove(accountId)
    \/ SetActiveBegin
    \/ SetActiveModify
    \/ SetActiveUpdate
    \/ SetActiveCommit
    \/ ReadGetActive
    \/ ReadGetAll
    \/ SessionSave
    \/ SessionDelete
    \/ ReadSessions

\* the repository calls on sessions, with whole account calls in between
SessionsNext ==
    \/ DbAdvance
    \/ AccountAdd
    \/ \E accountId \in AccountSlugs : AccountRemove(accountId)
    \/ SessionSave
    \/ SessionDelete
    \/ SessionDeleteAll
    \/ \E id \in SessionIds : SessionMarkAsSynced(id)

(***************************************************************************)
(* Account mutations (lib/queries/useAccounts.ts) and the account          *)
(* selection of the setup route, each as one call                          *)
(***************************************************************************)
\* db.accounts.get(id): the row as <<>> or <<row>>
AccountGetById(store, id) ==
    IF id \in DOMAIN store THEN <<store[id]>> ELSE <<>>

\* the mutation without the switch to a remaining account (a plausible slip)
RemoveAccountNoSwitch(store, accountId, t) == Delete(store, accountId)

\* mutationFn of useRemoveAccount: the account table after the mutation
RemoveAccountOf(store, accountId, t) ==
    LET account == AccountGetById(store, accountId)
        isActive == account # <<>> /\ account[1].isActive
        removed == Delete(store, accountId)
        remainingAccounts == AccountGetAll(removed)
    IN IF isActive /\ Len(remainingAccounts) > 0
       THEN Activate(DeactivateAll(removed), remainingAccounts[1].id, t)
       ELSE removed

\* handleSelectAccount of the setup route: accountOps.add with isActive: true
SetupSelectAccount ==
    /\ \E slug \in MutationSlugs :
         accounts' = Put(accounts, [id |-> slug, slug |-> slug,
                                    isActive |-> TRUE, lastUsed |-> now])
    /\ observed' = NoObservation
    /\ UNCHANGED <<now, sessions, tx, view>>
    /\ UNCHANGED <<timerState, lastOp, focus, sheet>>

\* mutationFn of useAddAccount: an account that is already connected is
\* rejected, a new one is added with isActive: false
AddAccountMutation ==
    /\ \E slug \in MutationSlugs :
         /\ AccountGetById(accounts, slug) = <<>>
         /\ accounts' = Put(accounts, [id |-> slug, slug |-> slug,
                                       isActive |-> FALSE, lastUsed |-> now])
    /\ observed' = NoObservation
    /\ UNCHANGED <<now, sessions, tx, view>>
    /\ UNCHANGED <<timerState, lastOp, focus, sheet>>

\* mutationFn of useSwitchAccount: getById, then setActive
SwitchAccountMutation ==
    /\ \E accountId \in MutationSlugs :
         /\ AccountGetById(accounts, accountId) # <<>>
         /\ accounts' = Activate(DeactivateAll(accounts), accountId, now)
    /\ observed' = NoObservation
    /\ UNCHANGED <<now, sessions, tx, view>>
    /\ UNCHANGED <<timerState, lastOp, focus, sheet>>

\* mutationFn of useRemoveAccount
RemoveAccountMutation(accountId) ==
    /\ accounts' = RemoveAccountOf(accounts, accountId, now)
    /\ observed' = [NoObservation EXCEPT
                      !.op = "removeAccount",
                      !.arg = accountId,
                      !.during = (accountId \in ActiveIds(accounts)),
                      !.actives = Cardinality(ActiveIds(accounts)),
                      !.count = Cardinality(DOMAIN accounts \ {accountId})]
    /\ UNCHANGED <<now, sessions, tx, view>>
    /\ UNCHANGED <<timerState, lastOp, focus, sheet>>

AccountsNext ==
    \/ DbAdvance
    \/ SetupSelectAccount
    \/ AddAccountMutation
    \/ SwitchAccountMutation
    \/ \E accountId \in MutationSlugs : RemoveAccountMutation(accountId)

(***************************************************************************)
(* Specifications                                                          *)
(***************************************************************************)
Init == TimerInit /\ DbInit /\ focus = NoFocus /\ sheet = Unmounted

Next == TimerNext

\* the Timer Engine
Spec == Init /\ [][Next]_vars

\* the Account and Session repositories
SpecDb == Init /\ [][DbNext]_vars

\* the Session repository
SpecSessions == Init /\ [][SessionsNext]_vars

\* the account mutations
SpecAccounts == Init /\ [][AccountsNext]_vars

(***************************************************************************)
(* Session Aggregation (lib/hooks/useSessions.ts, useSessionsByDate)       *)
(***************************************************************************)
HistorySessions == 3

MsPerDay == 86400000

\* the (cardId, boardId) pairs of the cards worked on
CardBoards == {<<"c1", "b1">>, <<"c1", "b2">>, <<"c2", "b1">>}

\* the start times of stored sessions: two on one day, one on the next
SessionStarts == {1000, 2000, MsPerDay + 1000}

\* the account under which the history is shown
HistoryAccount == "a"

\* date.toLocaleDateString(...): the calendar day of a start time
DateKey(startTime) == startTime \div MsPerDay

\* the key of the card map with the board left out (a plausible slip)
CardKeyWithoutBoard(session) == session.cardId

\* `${session.cardId}-${session.boardId}`
CardKey(session) == session.cardId \o "-" \o session.boardId

\* the keys of byDate, in insertion order
DateKeys(list) ==
    LET first == SelectSeq([i \in 1..Len(list) |-> i],
                     LAMBDA i : \A j \in 1..(i - 1) :
                        DateKey(list[j].startTime) # DateKey(list[i].startTime))
    IN [p \in 1..Len(first) |-> DateKey(list[first[p]].startTime)]

\* byDate[dateKey]
ByDate(list, dateKey) ==
    SelectSeq(list, LAMBDA x : DateKey(x.startTime) = dateKey)

\* the merge of a session into the entry of its card
MergeEntry(existing, session) ==
    [existing EXCEPT
       !.session.duration = @ + session.duration,
       !.session.startTime = Min(@, session.startTime),
       !.session.endTime = IF Truthy(session.endTime)
                           THEN Max(OrZero(@), session.endTime)
                           ELSE @,
       !.count = @ + 1,
       !.ids = Append(@, session.id)]

\* one iteration of the loop over dateSessions
AddToCardMap(cardMap, session) ==
    LET cardKey == CardKey(session)
        hit == {i \in 1..Len(cardMap) : cardMap[i].key = cardKey}
    IN IF hit # {}
       THEN [i \in 1..Len(cardMap) |->
               IF i \in hit THEN MergeEntry(cardMap[i], session) ELSE cardMap[i]]
       ELSE Append(cardMap, [key |-> cardKey, session |-> session,
                             count |-> 1, ids |-> <<session.id>>])

RECURSIVE MergeSessions(_, _)
\* the loop over dateSessions that fills cardMap
MergeSessions(cardMap, dateSessions) ==
    IF dateSessions = <<>> THEN cardMap
    ELSE MergeSessions(AddToCardMap(cardMap, Head(dateSessions)),
                       Tail(dateSessions))

\* Array.from(cardMap.values()).map(...): the view records of one date
ViewRows(cardMap) ==
    [i \in 1..Len(cardMap) |->
       [sessionCount |-> cardMap[i].count,
        mergedIds |-> IF Len(cardMap[i].ids) > 1 THEN cardMap[i].ids ELSE <<>>]
       @@ cardMap[i].session]

\* grouped: the date groups in insertion order, each with its view records
Grouped(list) ==
    LET keys == DateKeys(list)
    IN [d \in 1..Len(keys) |->
          [dateKey |-> keys[d],
           rows |-> ViewRows(MergeSessions(<<>>, ByDate(list, keys[d])))]]

\* new Date(dateKey).getTime(): local midnight of the calendar day
ParseDate(dateKey) == dateKey * MsPerDay

\* dates: Object.keys(grouped).sort((a, b) => new Date(b) - new Date(a))
Dates(grouped) ==
    LET keys == [d \in 1..Len(grouped) |->
                   [dateKey |-> grouped[d].dateKey,
                    time |-> ParseDate(grouped[d].dateKey)]]
        sorted == SortDesc(keys, "time")
    IN [d \in 1..Len(sorted) |-> sorted[d].dateKey]

(***************************************************************************)
(* The same loop over session objects.  heap[p] is the object with the     *)
(* reference p; the objects of the query result have the references        *)
(* 1..Len(list), and an entry of cardMap holds the reference of its        *)
(* session object.                                                         *)
(***************************************************************************)
\* the entry keeping the session object of the query result (a plausible
\* slip)
SpreadAliased(heap, p) == [heap |-> heap, ref |-> p]

\* { ...session }: a new object with the fields of the object p
SpreadCopy(heap, p) == [heap |-> Append(heap, heap[p]), ref |-> Len(heap) + 1]

\* one iteration of the loop over dateSessions, on the object p
AddObject(st, p) ==
    LET session == st.heap[p]
        cardKey == CardKey(session)
        hit == {i \in 1..Len(st.cardMap) : st.cardMap[i].key = cardKey}
    IN IF hit # {}
       THEN LET i == CHOOSE i \in hit : TRUE
                existing == [session |-> st.heap[st.cardMap[i].ref],
                             count |-> st.cardMap[i].count,
                             ids |-> st.cardMap[i].ids]
                merged == MergeEntry(existing, session)
            IN [heap |-> [st.heap EXCEPT ![st.cardMap[i].ref] = merged.session],
                cardMap |-> [st.cardMap EXCEPT ![i].count = merged.count,
                                               ![i].ids = merged.ids]]
       ELSE LET copy == SpreadCopy(st.heap, p)
            IN [heap |-> copy.heap,
                cardMap |-> Append(st.cardMap,
                                   [key |-> cardKey, ref |-> copy.ref,
                                    count |-> 1, ids |-> <<session.id>>])]

RECURSIVE MergeObjects(_, _)
\* the loop over dateSessions, given as references
MergeObjects(st, refs) ==
    IF refs = <<>> THEN st
    ELSE MergeObjects(AddObject(st, Head(refs)), Tail(refs))

\* byDate[dateKey] as references into the query result
DateRefs(list, dateKey) ==
    SelectSeq([i \in 1..Len(list) |-> i],
              LAMBDA i : DateKey(list[i].startTime) = dateKey)

RECURSIVE HeapAfter(_, _, _)
\* the loop over Object.entries(byDate): the objects after the dates keys
HeapAfter(heap, list, keys) ==
    IF keys = <<>> THEN heap
    ELSE HeapAfter(MergeObjects([heap |-> heap, cardMap |-> <<>>],
                                DateRefs(list, Head(keys))).heap,
                   list, Tail(keys))

\* the objects of the query result once grouped has been computed
InputsAfter(list) ==
    SubSeq(HeapAfter(list, list, DateKeys(list)), 1, Len(list))

\* the session objects that grouped has created
ObjectsCreated(list) ==
    LET heap == HeapAfter(list, list, DateKeys(list))
    IN {heap[p] : p \in (Len(list) + 1)..Len(heap)}

\* useSessions (query): the sessions of the active account
SessionsQuery(accs, store) ==
    LET targetAccountId == getActiveAccountId(accs)
    IN IF targetAccountId = "null" THEN <<>>
       ELSE SessionGetAll(accs, store, targetAccountId)

\* useSessionsByDate.deleteSession(id): the ids handed to the delete mutation
DeletedIds(grouped, id) ==
    IF Len(grouped) = 0 THEN {}
    ELSE LET session == Find(SelectSeq(grouped[1].rows, LAMBDA r : r.id = id))
         IN IF session # <<>> /\ session[1].mergedIds # <<>>
            THEN Range(session[1].mergedIds)
            ELSE {id}

\* the ids of the records shown in the history view
ViewIds(grouped) ==
    UNION {{grouped[d].rows[i].id : i \in 1..Len(grouped[d].rows)} :
             d \in 1..Len(grouped)}

\* the view record with the given id
ViewRow(grouped, id) ==
    LET d == CHOOSE d \in 1..Len(grouped) :
                \E i \in 1..Len(grouped[d].rows) : grouped[d].rows[i].id = id
        i == CHOOSE i \in 1..Len(grouped[d].rows) : grouped[d].rows[i].id = id
    IN grouped[d].rows[i]

\* the sessions that may be stored under one id
StoredSessions(id) ==
    {[id |-> id, accountId |-> HistoryAccount, cardId |-> cb[1],
      boardId |-> cb[2], startTime |-> st,
      endTime |-> IF ended THEN st + 100 * id * MsPerSecond ELSE Null,
      duration |-> 100 * id, synced |-> FALSE] :
        cb \in CardBoards, st \in SessionStarts, ended \in BOOLEAN}

\* the history screen is opened: the sessions query resolves
HistoryLoad ==
    /\ lastOp = "init"
    /\ view' = Grouped(SessionsQuery(accounts, sessions))
    /\ lastOp' = "history"
    /\ UNCHANGED <<now, accounts, sessions, tx, observed>>
    /\ UNCHANGED <<timerState, focus, sheet>>

\* useSessionsByDate.deleteSession(id), followed by the refetch of the query
HistoryDelete(id) ==
    /\ lastOp # "init"
    /\ id \in ViewIds(view)
    /\ sessions' = [k \in DOMAIN sessions \ DeletedIds(view, id) |-> sessions[k]]
    /\ view' = Grouped(SessionsQuery(accounts, sessions'))
    /\ lastOp' = "deleteSession"
    /\ UNCHANGED <<now, accounts, tx, observed>>
    /\ UNCHANGED <<timerState, focus, sheet>>

HistoryInit ==
    /\ TimerInit
    /\ accounts = [k \in {HistoryAccount} |->
                     [id |-> k, slug |-> k, isActive |-> TRUE, lastUsed |-> 0]]
    /\ \E ids \in SUBSET (1..HistorySessions) :
         sessions \in [ids -> UNION {StoredSessions(id) : id \in ids}]
    /\ \A id \in DOMAIN sessions : sessions[id].id = id
    /\ tx = NoTx
    /\ observed = NoObservation
    /\ view = <<>>
    /\ focus = NoFocus
    /\ sheet = Unmounted

HistoryNext ==
    \/ HistoryLoad
    \/ \E id \in 1..HistorySessions : HistoryDelete(id)

\* the history view over a stored set of sessions
SpecHistory == HistoryInit /\ [][HistoryNext]_vars

(***************************************************************************)
(* Focus route (routes/focus.tsx): the timer controls and the stop flow    *)
(***************************************************************************)
FocusMaxNow == 12000

MIN_SESSION_DURATION == 10

\* useSettings: no account, an active account, an active account whose
\* userId is missing
FocusAccounts ==
    {<<>>} \cup
    {[k \in {"a"} |-> [id |-> "a", slug |-> "a", isActive |-> TRUE,
                       lastUsed |-> 0, userId |-> u]] : u \in {"u1", "null"}}

\* the stop flow without the minimum-duration check (a plausible slip)
TooShortNever(duration) == FALSE

\* sessionData.duration < MIN_SESSION_DURATION
TooShort(duration) == duration < MIN_SESSION_DURATION

\* handleStop: the branch taken, given whether the save resolves
HandleStopOutcome(timerData, activeAccount, duration, saveOk) ==
    IF timerData = NoData THEN "ignored"
    ELSE IF activeAccount = <<>> \/ activeAccount[1].userId = "null"
         THEN "noAccount"
    ELSE IF TooShort(duration) THEN "tooShort"
    ELSE IF saveOk THEN "saved"
    ELSE "saveFailed"

\* the stop flow resetting the timer also when the save rejects (a
\* plausible slip)
ResetsTimerAlways(outcome) == outcome # "ignored"

\* handleStop: the branches that call timer.reset()
ResetsTimer(outcome) == outcome \in {"noAccount", "tooShort", "saved"}

\* crypto.randomUUID(): an id that is not in the store
NewSessionId(store) ==
    CHOOSE id \in SessionIds \ DOMAIN store :
        \A other \in SessionIds \ DOMAIN store : id <= other

\* createSession(...) completed with duration and endTime
FocusSession(store, timerData, accountSlug, duration, t) ==
    [id |-> NewSessionId(store), accountId |-> accountSlug,
     cardId |-> timerData.card, boardId |-> timerData.board,
     startTime |-> t, endTime |-> t, duration |-> duration, synced |-> FALSE]

\* the wall clock advances while the focus route is shown
FocusAdvance ==
    /\ \E d \in Steps :
         /\ CanAdvance(d, FocusMaxNow)
         /\ now' = now + d
         /\ runMs' = IF state = "running" /\ clean THEN runMs + d ELSE runMs
    /\ UNCHANGED <<hidden, state, mode, currentSessionElapsed, data,
                   startTimeRef, stateRef, previousElapsedRef, durationRef,
                   intervalRef, saveInterval, snapshot, lastOp, clean>>
    /\ UNCHANGED <<dbVars, focus, sheet>>

\* the route is mounted with card parameters in the URL on an idle timer:
\* timer.start(data) with no duration
FocusStart ==
    /\ UserCanAct
    /\ state = "idle"
    /\ \E timerData \in TimerDatas :
         Render(Mem, StartCall(Mem, timerData, Null, now), TRUE,
                snapshot, intervalRef, saveInterval)
    /\ focus' = NoFocus
    /\ lastOp' = "start"
    /\ runMs' = 0
    /\ clean' = TRUE
    /\ UNCHANGED <<now, hidden>>
    /\ UNCHANGED <<dbVars, sheet>>

\* the pause / resume button
TogglePause ==
    /\ UserCanAct
    /\ data # NoData
    /\ Render(Mem,
              IF state = "running" THEN PauseCall(Mem) ELSE ResumeCall(Mem, now),
              FALSE, snapshot, intervalRef, saveInterval)
    /\ lastOp' = "toggle"
    /\ UNCHANGED <<now, hidden, runMs, clean, focus>>
    /\ UNCHANGED <<dbVars, sheet>>

\* handleStopClick: open the confirmation dialog
HandleStopClick ==
    /\ UserCanAct
    /\ data # NoData
    /\ focus' = IF state \in {"running", "paused"}
                THEN [focus EXCEPT !.confirm = TRUE]
                ELSE focus
    /\ lastOp' = "stopClick"
    /\ UNCHANGED <<now, timerState, dbVars, sheet>>

\* handleCancelStop: close the confirmation dialog
HandleCancelStop ==
    /\ UserCanAct
    /\ focus.confirm
    /\ focus' = [focus EXCEPT !.confirm = FALSE]
    /\ lastOp' = "cancelStop"
    /\ UNCHANGED <<now, timerState, dbVars, sheet>>

\* handleStop (the confirm button of the dialog): save the session and
\* reset the timer; saveOk tells whether the save mutation resolves
HandleStop(saveOk) ==
    /\ UserCanAct
    /\ focus.confirm
    /\ DOMAIN sessions # SessionIds
    /\ LET activeAccount == AccountGetActive(accounts)
           outcome == HandleStopOutcome(data, activeAccount,
                                        currentSessionElapsed, saveOk)
       IN /\ sessions' =
               IF outcome = "saved"
               THEN Put(sessions,
                        FocusSession(sessions, data, activeAccount[1].slug,
                                     currentSessionElapsed, now))
               ELSE sessions
          /\ IF ResetsTimer(outcome)
             THEN /\ Render(Mem, ResetCall(Mem), FALSE, <<>>, Null, saveInterval)
                  /\ focus' = [focus EXCEPT !.confirm = FALSE]
             ELSE /\ UNCHANGED <<state, mode, currentSessionElapsed, data,
                                 startTimeRef, stateRef, previousElapsedRef,
                                 durationRef, intervalRef, saveInterval,
                                 snapshot>>
                  /\ focus' = [focus EXCEPT
                                 !.failed = @ \/ outcome = "saveFailed"]
          /\ lastOp' = outcome
    /\ UNCHANGED <<now, hidden, runMs, clean, accounts, tx, observed, view,
                   sheet>>

\* handleExit: leave without saving
HandleExit ==
    /\ UserCanAct
    /\ data # NoData
    /\ Render(Mem, ResetCall(Mem), FALSE, <<>>, Null, saveInterval)
    /\ focus' = [focus EXCEPT !.confirm = FALSE]
    /\ lastOp' = "exit"
    /\ UNCHANGED <<now, hidden, runMs, clean>>
    /\ UNCHANGED <<dbVars, sheet>>

FocusInit ==
    /\ TimerInit
    /\ accounts \in FocusAccounts
    /\ sessions = <<>>
    /\ tx = NoTx
    /\ observed = NoObservation
    /\ view = <<>>
    /\ focus = NoFocus
    /\ sheet = Unmounted

FocusNext ==
    \/ FocusAdvance
    \/ Tick
    \/ FocusStart
    \/ TogglePause
    \/ HandleStopClick
    \/ HandleCancelStop
    \/ \E saveOk \in BOOLEAN : HandleStop(saveOk)
    \/ HandleExit

\* the focus route over the timer and the session store
SpecFocus == FocusInit /\ [][FocusNext]_vars

(***************************************************************************)
(* Focus route with a countdown started from the home route                *)
(***************************************************************************)
\* the countdown target chosen on the home route (seconds)
FocusTarget == MIN_SESSION_DURATION

\* an active account with a user id
ConfiguredAccount ==
    [k \in {"a"} |-> [id |-> "a", slug |-> "a", isActive |-> TRUE,
                      lastUsed |-> 0, userId |-> "u1"]]

\* handleStartTimer of the home route with a selected duration, then the
\* focus route mounts and restores the timer from the snapshot
CountdownStart ==
    /\ UserCanAct
    /\ state = "idle"
    /\ \E timerData \in TimerDatas :
         LET started == StartCall(Mem, timerData, FocusTarget, now)
             saved == SaveEffect(Mem, started, TRUE, snapshot, now)
         IN Render(InitialMem, RestoreEffect(getSavedTimerState(saved, now), now),
                   FALSE, saved, Null, Null)
    /\ focus' = NoFocus
    /\ lastOp' = "start"
    /\ runMs' = 0
    /\ clean' = TRUE
    /\ UNCHANGED <<now, hidden>>
    /\ UNCHANGED <<dbVars, sheet>>

CountdownInit ==
    /\ TimerInit
    /\ accounts = ConfiguredAccount
    /\ sessions = <<>>
    /\ tx = NoTx
    /\ observed = NoObservation
    /\ view = <<>>
    /\ focus = NoFocus
    /\ sheet = Unmounted

CountdownNext ==
    \/ FocusAdvance
    \/ Tick
    \/ CountdownStart
    \/ TogglePause
    \/ HandleStopClick
    \/ HandleCancelStop
    \/ \E saveOk \in BOOLEAN : HandleStop(saveOk)
    \/ HandleExit

\* the focus route showing a countdown: time passes, ticks fire, and the
\* user keeps trying to stop and save
SpecCountdown ==
    /\ CountdownInit
    /\ [][CountdownNext]_vars
    /\ WF_vars(FocusAdvance)
    /\ WF_vars(Tick)
    /\ WF_vars(HandleStopClick)
    /\ SF_vars(HandleStop(TRUE))

(***************************************************************************)
(* Mounted useTimer instances: the route component (HomeComponent or       *)
(* FocusComponent) holds the instance of the timer variables, the settings *)
(* sheet of the home route holds the instance sheet; both read and write   *)
(* the one snapshot in localStorage.  sheet.mounted tells that the home    *)
(* route is shown.                                                         *)
(***************************************************************************)
InstMaxNow == 7000

\* the accounts of the settings sheet: "a" is active, "b" is not
SheetAccounts ==
    [k \in {"a", "b"} |-> [id |-> k, slug |-> k, isActive |-> (k = "a"),
                           lastUsed |-> 0]]

\* the sheet's instance after a render of the values m, with its effects
SheetRendered(prev, m, interval, saving, t) ==
    [mounted |-> TRUE, mem |-> m,
     interval |-> TickEffect(prev, m, interval, t),
     saving |-> PeriodicSaveEffect(prev, m, FALSE, saving, t)]

\* an instance is mounted: the restore effect reads the snapshot
Restored(snap, t) == RestoreEffect(getSavedTimerState(snap, t), t)

\* the sheet's one-second interval is due
SheetTickDue == sheet.interval # Null /\ now >= sheet.interval

\* the sheet's periodic save interval is due
SheetSaveDue == sheet.saving # Null /\ now >= sheet.saving

\* the user can act on the home or focus route
InstCanAct == UserCanAct /\ ~SheetTickDue /\ ~SheetSaveDue

\* the wall clock advances by one second; in a visible tab no callback of
\* either instance is late
InstAdvance ==
    /\ CanAdvance(MsPerSecond, InstMaxNow)
    /\ hidden \/ sheet.interval = Null \/ now + MsPerSecond <= sheet.interval
    /\ hidden \/ sheet.saving = Null \/ now + MsPerSecond <= sheet.saving
    /\ now' = now + MsPerSecond
    /\ UNCHANGED <<hidden, state, mode, currentSessionElapsed, data,
                   startTimeRef, stateRef, previousElapsedRef, durationRef,
                   intervalRef, saveInterval, snapshot, lastOp, runMs, clean>>
    /\ UNCHANGED <<dbVars, focus, sheet>>

\* the app is opened at /home: HomeComponent and the settings sheet mount
\* and each instance restores itself from the snapshot
OpenHome ==
    /\ Render(InitialMem, Restored(snapshot, now), FALSE, snapshot, Null, Null)
    /\ sheet' = SheetRendered(InitialMem, Restored(snapshot, now), Null, Null,
                              now)
    /\ hidden' = FALSE
    /\ lastOp' = "openHome"
    /\ UNCHANGED <<now, runMs, clean>>
    /\ UNCHANGED <<dbVars, focus>>

\* the timer banner of the home route: navigate to /focus; the instances of
\* the home route are torn down and FocusComponent mounts its own
OpenFocus ==
    /\ InstCanAct
    /\ sheet.mounted
    /\ state # "idle" /\ data # NoData
    /\ Render(InitialMem, Restored(snapshot, now), FALSE, snapshot, Null, Null)
    /\ sheet' = Unmounted
    /\ lastOp' = "openFocus"
    /\ UNCHANGED <<now, hidden, runMs, clean>>
    /\ UNCHANGED <<dbVars, focus>>

\* handleStartTimer of the home route: timer.start(data, selectedDuration),
\* then navigate to /focus
HomeStartTimer ==
    /\ InstCanAct
    /\ sheet.mounted
    /\ state = "idle"
    /\ \E timerData \in TimerDatas, durationSeconds \in DurationArgs :
         LET started == StartCall(Mem, timerData, durationSeconds, now)
             saved == SaveEffect(Mem, started, TRUE, snapshot, now)
         IN Render(InitialMem, Restored(saved, now), FALSE, saved, Null, Null)
    /\ sheet' = Unmounted
    /\ lastOp' = "homeStart"
    /\ UNCHANGED <<now, hidden, runMs, clean>>
    /\ UNCHANGED <<dbVars, focus>>

\* the pause / resume button of the focus route
FocusToggle ==
    /\ InstCanAct
    /\ ~sheet.mounted
    /\ data # NoData
    /\ Render(Mem,
              IF state = "running" THEN PauseCall(Mem) ELSE ResumeCall(Mem, now),
              FALSE, snapshot, intervalRef, saveInterval)
    /\ lastOp' = "toggle"
    /\ UNCHANGED <<now, hidden, runMs, clean>>
    /\ UNCHANGED <<dbVars, focus, sheet>>

\* handleExit of the focus route: timer.reset(), then navigate to /home
FocusExit ==
    /\ InstCanAct
    /\ ~sheet.mounted
    /\ data # NoData
    /\ Render(InitialMem, Restored(<<>>, now), FALSE, <<>>, Null, Null)
    /\ sheet' = SheetRendered(InitialMem, Restored(<<>>, now), Null, Null, now)
    /\ lastOp' = "exit"
    /\ UNCHANGED <<now, hidden, runMs, clean>>
    /\ UNCHANGED <<dbVars, focus>>

\* the callback of the sheet's one-second interval
SheetTick ==
    /\ SheetTickDue
    /\ LET m == TickCallback(sheet.mem, now)
       IN /\ sheet' = SheetRendered(sheet.mem, m, now + TickMs, sheet.saving,
                                    now)
          /\ snapshot' = SaveEffect(sheet.mem, m, FALSE, snapshot, now)
    /\ lastOp' = "sheetTick"
    /\ UNCHANGED <<now, hidden, state, mode, currentSessionElapsed, data,
                   startTimeRef, stateRef, previousElapsedRef, durationRef,
                   intervalRef, saveInterval, runMs, clean>>
    /\ UNCHANGED <<dbVars, focus>>

\* the callback of the sheet's periodic save interval
SheetSaveTick ==
    /\ SheetSaveDue
    /\ snapshot' = <<saveTimerState(sheet.mem, now)>>
    /\ sheet' = [sheet EXCEPT !.saving = now + SaveMs]
    /\ lastOp' = "sheetSave"
    /\ UNCHANGED <<now, hidden, state, mode, currentSessionElapsed, data,
                   startTimeRef, stateRef, previousElapsedRef, durationRef,
                   intervalRef, saveInterval, runMs, clean>>
    /\ UNCHANGED <<dbVars, focus>>

\* SettingsSheet.handleSwitch(accountId): pause the timer if it is running,
\* then switch the account
HandleSwitch ==
    /\ InstCanAct
    /\ sheet.mounted
    /\ \E accountId \in DOMAIN accounts :
         /\ accountId \notin ActiveIds(accounts)
         /\ accounts' = Activate(DeactivateAll(accounts), accountId, now)
    /\ LET m == IF sheet.mem.state = "running"
                THEN PauseCall(sheet.mem) ELSE sheet.mem
       IN /\ sheet' = SheetRendered(sheet.mem, m, sheet.interval, sheet.saving,
                                    now)
          /\ snapshot' = SaveEffect(sheet.mem, m, FALSE, snapshot, now)
    /\ lastOp' = "switch"
    /\ UNCHANGED <<now, hidden, state, mode, currentSessionElapsed, data,
                   startTimeRef, stateRef, previousElapsedRef, durationRef,
                   intervalRef, saveInterval, runMs, clean>>
    /\ UNCHANGED <<sessions, tx, observed, view, focus>>

\* the tab comes back to the foreground: the focus route resyncs a running
\* timer, the home route does nothing
InstShow ==
    /\ hidden
    /\ hidden' = FALSE
    /\ Render(Mem,
              IF ~sheet.mounted /\ state = "running"
              THEN ResyncCall(Mem, now) ELSE Mem,
              FALSE, snapshot, intervalRef, saveInterval)
    /\ lastOp' = "show"
    /\ UNCHANGED <<now, runMs, clean>>
    /\ UNCHANGED <<dbVars, focus, sheet>>

InstInit ==
    /\ TimerInit
    /\ accounts = SheetAccounts
    /\ sessions = <<>>
    /\ tx = NoTx
    /\ observed = NoObservation
    /\ view = <<>>
    /\ focus = NoFocus
    /\ sheet = SheetRendered(InitialMem, InitialMem, Null, Null, now)

InstNext ==
    \/ InstAdvance
    \/ Tick
    \/ SaveTick
    \/ SheetTick
    \/ SheetSaveTick
    \/ OpenHome
    \/ OpenFocus
    \/ HomeStartTimer
    \/ FocusToggle
    \/ FocusExit
    \/ HandleSwitch
    \/ Hide
    \/ InstShow

\* the routes with their useTimer instances over the one snapshot
SpecInstances == InstInit /\ [][InstNext]_vars

(***************************************************************************)
(* Properties of the Timer Engine                                          *)
(***************************************************************************)

\* C1: when a run start -> (pause -> resume)* -> stop ends, with every tick
\* fired on time, the saved sessionElapsed is the wall-clock time spent
\* running, in whole seconds.
C1_StopElapsedIsRunningTime ==
    (lastOp = "stop" /\ clean) => currentSessionElapsed = FloorSeconds(runMs)

\* the elapsed time a tick or resync computes in the current state
ComputedElapsed == FloorSeconds(now - startTimeRef)

\* the countdown is running and a recomputation now would reach the target
CountdownExpiring ==
    /\ state = "running"
    /\ mode = "countdown"
    /\ Truthy(durationRef)
    /\ Truthy(startTimeRef)
    /\ ComputedElapsed >= durationRef

\* C2: in countdown mode a tick or resync that computes elapsed >= D moves
\* the timer to completed with sessionElapsed = D, remaining = 0 and
\* formattedTime "00:00"; remaining is never negative and sessionElapsed
\* never exceeds D in countdown mode.
C2_CountdownClamp ==
    /\ [][ ((Tick \/ resync \/ Show) /\ CountdownExpiring)
            => /\ state' = "completed"
               /\ currentSessionElapsed' = durationRef
               /\ remaining' = 0
               /\ formattedTime' = "00:00" ]_vars
    /\ [](remaining >= 0)
    /\ []((mode = "countdown" /\ Truthy(durationRef))
            => currentSessionElapsed <= durationRef)

\* C2 witness: a late tick has completed a countdown at its target
C2_Witness ==
    /\ lastOp = "tick"
    /\ state = "completed"
    /\ mode = "countdown"
    /\ currentSessionElapsed = durationRef
    /\ formattedTime = "00:00"
    /\ snapshot # <<>>
    /\ snapshot[1].state = "completed"
    /\ now - snapshot[1].savedAt = 0
    /\ hidden

\* the stored snapshot was written in state running with a start instant
SnapshotRunning ==
    /\ snapshot # <<>>
    /\ snapshot[1].state = "running"
    /\ Truthy(snapshot[1].startTime)

\* C3: restoring a snapshot saved in state running with start instant T at
\* time T+k gives running with sessionElapsed = k for a stopwatch or k below
\* the countdown target, and completed with sessionElapsed = target when the
\* countdown target has been reached.
C3_RestoreRunning ==
    [][ (Reload /\ SnapshotRunning)
         => LET snap == snapshot[1]
                k == FloorSeconds(now - snap.startTime)
            IN IF snap.mode = "countdown" /\ k >= snap.duration
               THEN /\ state' = "completed"
                    /\ currentSessionElapsed' = snap.duration
               ELSE /\ state' = "running"
                    /\ currentSessionElapsed' = k
                    /\ startTimeRef' = snap.startTime ]_vars

\* C3 witness: a reload found an expired countdown and went to completed
C3_Witness ==
    /\ lastOp = "reload"
    /\ state = "completed"
    /\ mode = "countdown"
    /\ currentSessionElapsed = durationRef
    /\ data # NoData

\* the externally visible timer context and the persisted snapshot
TimerContext ==
    <<state, currentSessionElapsed, startTimeRef, mode, data,
      previousElapsedRef, durationRef, snapshot>>

\* C10: pause() outside running, resume() outside paused and resync()
\* outside running change neither the timer nor the persisted snapshot.
C10_InvalidCallsAreNoOps ==
    [][ ( \/ (pause /\ state # "running")
          \/ (resume /\ state # "paused")
          \/ (resync /\ state # "running") )
         => UNCHANGED TimerContext ]_vars

\* C10 witness: pause() was called on an idle timer, resume() on a completed one
C10_Witness ==
    \/ (lastOp = "pause" /\ state = "idle")
    \/ (lastOp = "resume" /\ state = "completed")

\* C11: stop() from running or paused moves the timer to completed and
\* keeps sessionElapsed; stop() in idle or completed changes neither the
\* timer nor the persisted snapshot.
C11_StopOnlyFromRunningOrPaused ==
    [][ stop
         => IF state \in {"running", "paused"}
            THEN /\ state' = "completed"
                 /\ currentSessionElapsed' = currentSessionElapsed
            ELSE UNCHANGED TimerContext ]_vars

\* C12: start(data, duration) outside idle leaves state, sessionElapsed,
\* the start instant, data and mode as they are.
C12_StartOnlyFromIdle ==
    [][ (start /\ state # "idle")
         => UNCHANGED <<state, currentSessionElapsed, startTimeRef, data,
                        mode>> ]_vars

\* the timer is idle with nothing in memory and no persisted snapshot
TimerCleared ==
    /\ state = "idle"
    /\ currentSessionElapsed = 0
    /\ previousElapsedRef = 0
    /\ data = NoData
    /\ mode = "stopwatch"
    /\ durationRef = Null
    /\ startTimeRef = Null
    /\ snapshot = <<>>

\* C13: reset() from any state gives an idle timer with sessionElapsed 0,
\* previousElapsed 0, no data, mode stopwatch, no target, no start instant
\* and no persisted snapshot; from there no step other than start() writes
\* a snapshot or leaves idle, so a reload restores an idle timer.
C13_ResetClearsEverything ==
    /\ [][ reset => TimerCleared' ]_vars
    /\ [][ (TimerCleared /\ ~start) => (snapshot' = <<>> /\ state' = "idle") ]_vars

\* the persisted snapshot holds the current state and was written just now
SnapshotWritten ==
    /\ snapshot # <<>>
    /\ snapshot[1].state = state
    /\ snapshot[1].savedAt = now

\* C14: every transition to a state other than idle writes the snapshot,
\* and while the timer runs in a visible tab, every tick on time, the
\* snapshot is never older than 5 seconds.
C14_SnapshotWrittenPeriodically ==
    /\ [][ (state' # state /\ state' # "idle") => SnapshotWritten' ]_vars
    /\ []( (state = "running" /\ clean /\ ~hidden)
             => (snapshot # <<>> /\ now - snapshot[1].savedAt <= SaveMs) )

\* the stored snapshot was written in state paused, with no start instant
SnapshotPaused ==
    /\ snapshot # <<>>
    /\ snapshot[1].state = "paused"
    /\ snapshot[1].startTime = Null

\* C15: restoring a snapshot saved in state paused gives paused with the
\* stored elapsed value, also when that value is 0.
C15_RestorePaused ==
    [][ (Reload /\ SnapshotPaused)
         => /\ state' = "paused"
            /\ currentSessionElapsed' = snapshot[1].elapsed ]_vars

\* C25: resume() from paused sets the start instant to now minus the
\* elapsed seconds and keeps sessionElapsed; the first tick after a resume
\* at time r reports floor((now - r) / 1000) plus the value held while
\* paused; every tick that leaves the timer running sets sessionElapsed to
\* floor((now - start instant) / 1000).
C25_ResumeKeepsElapsed ==
    /\ [][ (resume /\ state = "paused")
            => /\ state' = "running"
               /\ startTimeRef' = now - currentSessionElapsed * MsPerSecond
               /\ currentSessionElapsed' = currentSessionElapsed ]_vars
    /\ [][ (Tick /\ lastOp = "resume" /\ state = "running"
             /\ state' = "running")
            => LET held == currentSessionElapsed
                   r == startTimeRef + held * MsPerSecond
               IN currentSessionElapsed' = FloorSeconds(now - r) + held ]_vars
    /\ [][ (Tick /\ state = "running" /\ state' = "running")
            => currentSessionElapsed' = FloorSeconds(now - startTimeRef) ]_vars

\* C25 witness: a tick of a run that was paused in the middle of a second
\* and resumed: the start instant is later than the instant of start()
C25_Witness ==
    /\ lastOp = "tick"
    /\ clean
    /\ state = "running"
    /\ currentSessionElapsed >= 2
    /\ now - startTimeRef < runMs
    /\ currentSessionElapsed = FloorSeconds(now - startTimeRef)

\* C26: start(data, d) from idle gives running with sessionElapsed 0 and
\* previousElapsed = data.previousElapsed (0 when absent); the mode is
\* countdown exactly when a duration is given, whatever its value, and
\* stopwatch otherwise; the total elapsed is sessionElapsed + previousElapsed.
C26_StartFromIdle ==
    /\ [][ (start /\ state = "idle")
            => /\ state' = "running"
               /\ currentSessionElapsed' = 0
               /\ previousElapsedRef' = OrZero(data'.previousElapsed)
               /\ (mode' = "countdown") <=> (durationRef' # Null) ]_vars
    /\ [](totalElapsed = currentSessionElapsed + previousElapsedRef)

\* C27: a completed timer stays completed under pause, resume, resync,
\* ticks, periodic saves, the passing of time, the tab being hidden or shown
\* and a reload that restores the snapshot; it is never paused or running
\* again, and it becomes idle only through reset().
C27_CompletedIsFinal ==
    [][ (state = "completed" /\ data # NoData /\ ~start /\ ~reset)
         => state' = "completed" ]_vars

(***************************************************************************)
(* Properties of the mounted timer instances                               *)
(***************************************************************************)

C22_IntervalsCancelled ==
    /\ []( state # "running" => (intervalRef = Null /\ saveInterval = Null) )
    /\ []( (~sheet.mounted \/ sheet.mem.state # "running")
             => (sheet.interval = Null /\ sheet.saving = Null) )
    /\ [][ (Tick \/ SaveTick) => state = "running" ]_vars
    /\ [][ (SheetTick \/ SheetSaveTick)
            => (sheet.mounted /\ sheet.mem.state = "running") ]_vars
    /\ [][ (~sheet.mounted /\ ~sheet'.mounted) => sheet' = sheet ]_vars

\* C22 witness: the home route was left for the focus route while its
\* instance was running with its intervals set; the instances of the home
\* route are torn down and the timer shown is paused, with no interval
C22_Witness ==
    /\ lastOp = "openFocus"
    /\ ~sheet.mounted
    /\ sheet.interval = Null /\ sheet.saving = Null
    /\ state = "paused"
    /\ currentSessionElapsed >= 1
    /\ intervalRef = Null /\ saveInterval = Null

(***************************************************************************)
(* Properties of the Account and Session repositories                      *)
(***************************************************************************)

\* C4: after any sequence of add / setActive / remove calls at most one
\* stored account has isActive = true.
C4_AtMostOneActive == Cardinality(ActiveIds(accounts)) <= 1

\* C5: sessionOps.getAll() with no argument returns only sessions of the
\* currently active account, never a session saved under another account.
C5_CrossAccountIsolation ==
    observed.op = "sessions"
      => /\ observed.owners \subseteq {observed.active}
         /\ observed.owners \subseteq ActiveIds(accounts)
         /\ \A id \in Range(observed.ids) :
              sessions[id].accountId = observed.active

\* C5 witness: getAll() returned the active account's session while a
\* session of another account is in the store
C5_Witness ==
    /\ observed.op = "sessions"
    /\ observed.ids # <<>>
    /\ \E id \in DOMAIN sessions : sessions[id].accountId # observed.active
    /\ Cardinality(DOMAIN accounts) = 2

\* C8: a getActive() / getAll() interleaved with a setActive call between two
\* existing accounts never sees zero or two active accounts.
C8_SetActiveAtomic ==
    (observed.op \in {"getActive", "getAll"} /\ observed.during)
      => observed.actives = 1

\* C8 witness: a reader ran after setActive cleared the flags and before it
\* committed
C8_Witness ==
    /\ observed.op \in {"getActive", "getAll"}
    /\ observed.during
    /\ tx.pc = "update"
    /\ ActiveIds(tx.work) = {}

\* C9: when setActive(id) completes, exactly one account is active, it is
\* the account with the given id, and its lastUsed is the time of the call;
\* for every id, also one that is not in the store.
C9_SetActiveActivatesTarget ==
    tx.pc = "done"
      => /\ tx.target \in DOMAIN accounts
         /\ ActiveIds(accounts) = {tx.target}
         /\ accounts[tx.target].lastUsed = tx.at

\* C9 as amended: when setActive(id) completes for an id that is in the
\* store, exactly one account is active, it is the account with that id, and
\* its lastUsed is the time of the call; for an id that is not in the store
\* no account is active afterwards and no row is created.
C9_SetActiveAmended ==
    tx.pc = "done"
      => IF tx.target \in DOMAIN accounts
         THEN /\ ActiveIds(accounts) = {tx.target}
              /\ accounts[tx.target].lastUsed = tx.at
         ELSE ActiveIds(accounts) = {}

\* C9 witness: setActive has switched between two stored accounts
C9_Witness ==
    /\ tx.pc = "done"
    /\ tx.one
    /\ Cardinality(DOMAIN accounts) = 2
    /\ ActiveIds(accounts) = {tx.target}
    /\ \E k \in DOMAIN accounts : accounts[k].lastUsed < tx.at

\* C23: accountOps.add stores the account under its slug: the table gains
\* at most that key, the row has id = slug and lastUsed = now and every
\* other row is unchanged; an add whose payload does not ask for activation
\* leaves the set of active accounts as it is.
C23_AddKeepsActive ==
    [][ AccountAdd
         => \E slug \in AccountSlugs :
              /\ DOMAIN accounts' = DOMAIN accounts \cup {slug}
              /\ accounts'[slug].id = slug
              /\ accounts'[slug].lastUsed = now
              /\ \A k \in DOMAIN accounts \ {slug} : accounts'[k] = accounts[k]
              /\ ~accounts'[slug].isActive
                   => ActiveIds(accounts') = ActiveIds(accounts)
      ]_vars

\* the arguments of sessionOps.getAll: an account id, or none
GetAllArgs == AccountSlugs \cup {"null"}

\* C24: for every argument, sessionOps.getAll returns each stored session
\* of the given account once and no other (of the active account when there
\* is no argument), ordered by startTime descending; with no argument and
\* no active account it returns the empty list.
C24_GetAllOfAccount ==
    \A accountId \in GetAllArgs :
        LET all == SessionGetAll(accounts, sessions, accountId)
            active == AccountGetActive(accounts)
            target == IF accountId # "null" THEN accountId
                      ELSE IF active # <<>> THEN active[1].id ELSE "null"
            mine == {k \in DOMAIN sessions : sessions[k].accountId = target}
        IN /\ IdsOf(all) = mine
           /\ Len(all) = Cardinality(mine)
           /\ \A i \in 1..Len(all) : all[i] = sessions[all[i].id]
           /\ \A i, j \in 1..Len(all) :
                i < j => all[i].startTime >= all[j].startTime
           /\ (accountId = "null" /\ active = <<>>) => all = <<>>

\* C24 witness: getAll() returned two sessions of the active account, the
\* newer one first though it is stored after the older one
C24_Witness ==
    /\ observed.op = "sessions"
    /\ Len(observed.ids) = 2
    /\ observed.ids[1] > observed.ids[2]
    /\ sessions[observed.ids[1]].startTime > sessions[observed.ids[2]].startTime
    /\ observed.owners = {observed.active}

(***************************************************************************)
(* Properties of the Session Aggregation                                   *)
(***************************************************************************)

\* the underlying sessions a view record stands for
Members(row) ==
    IF row.mergedIds # <<>> THEN Range(row.mergedIds) ELSE {row.id}

\* C6: deleting a view record through deleteSession removes every session
\* in its mergedIds, in whatever date group the record is, and deleting a
\* non-merged record removes exactly that session.
C6_DeleteCascades ==
    [][ \A id \in 1..HistorySessions :
          HistoryDelete(id)
            => DOMAIN sessions' = DOMAIN sessions \ Members(ViewRow(view, id))
      ]_vars

RECURSIVE SumDuration(_)
\* the sum of the durations of a set of sessions
SumDuration(S) ==
    IF S = {} THEN 0
    ELSE LET x == CHOOSE x \in S : TRUE
         IN x.duration + SumDuration(S \ {x})

\* the sessions shown in the history: those of the active account
Shown == Range(SessionsQuery(accounts, sessions))

\* the sessions of one calendar date, card and board
GroupOf(dateKey, cardId, boardId) ==
    {x \in Shown : /\ DateKey(x.startTime) = dateKey
                   /\ x.cardId = cardId
                   /\ x.boardId = boardId}

\* the view record r stands for exactly the group G
RecordOf(r, G) ==
    /\ r.duration = SumDuration(G)
    /\ \E x \in G : r.startTime = x.startTime
    /\ \A x \in G : r.startTime <= x.startTime
    /\ LET ends == {x.endTime : x \in G} \ {Null}
       IN IF ends = {} THEN r.endTime = Null
          ELSE r.endTime \in ends /\ \A e \in ends : e <= r.endTime
    /\ r.sessionCount = Cardinality(G)
    /\ r.id \in {x.id : x \in G}
    /\ IF Cardinality(G) > 1
       THEN /\ Len(r.mergedIds) = Cardinality(G)
            /\ Range(r.mergedIds) = {x.id : x \in G}
       ELSE r.mergedIds = <<>>

ViewRecords(grouped) ==
    UNION {Range(grouped[d].rows) : d \in 1..Len(grouped)}

\* the session fields of a view record
SessionOf(row) ==
    [f \in DOMAIN row \ {"sessionCount", "mergedIds"} |-> row[f]]

\* C29: the aggregation is a pure partition of its input: the session
\* objects of the query result are the same after grouped has been computed,
\* every input session id is in exactly one view record (as its id alone or
\* in its mergedIds), the durations of the view records add up to the
\* durations of the input, and dates lists the date keys newest first.
C29_PurePartition ==
    lastOp \in {"history", "deleteSession"}
      => LET input == SessionsQuery(accounts, sessions)
             dates == Dates(view)
         IN /\ InputsAfter(input) = input
            /\ {SessionOf(r) : r \in ViewRecords(view)} = ObjectsCreated(input)
            /\ \A x \in Range(input) :
                 Cardinality({r \in ViewRecords(view) : x.id \in Members(r)}) = 1
            /\ \A r \in ViewRecords(view) : Members(r) \subseteq IdsOf(input)
            /\ SumDuration(ViewRecords(view)) = SumDuration(Range(input))
            /\ Range(dates) = {view[d].dateKey : d \in 1..Len(view)}
            /\ \A p, q \in 1..Len(dates) :
                 p < q => ParseDate(dates[p]) > ParseDate(dates[q])

\* C29 witness: three sessions are shown on two dates, two of them merged
\* into one record
C29_Witness ==
    /\ lastOp = "history"
    /\ Len(SessionsQuery(accounts, sessions)) = 3
    /\ Len(view) = 2
    /\ \E r \in ViewRecords(view) : Len(r.mergedIds) = 2

(***************************************************************************)
(* Properties of the Focus stop flow                                       *)
(***************************************************************************)

\* an account is configured: an active account with a user id
AccountConfigured ==
    \E k \in DOMAIN accounts :
        accounts[k].isActive /\ accounts[k].userId # "null"

\* the stop flow reaches the save: there is timer data, an account is
\* configured and the session is long enough
SaveAttempted ==
    /\ data # NoData
    /\ AccountConfigured
    /\ currentSessionElapsed >= MIN_SESSION_DURATION

\* C16: when the save of the stop flow rejects, state, data, sessionElapsed
\* and the snapshot stay as they are and the dialog stays open; after a
\* failure the data needed for a retry is still there and a retry whose save
\* resolves persists the session; the stop flow resets the timer only after
\* a successful save, a too short session or a missing account.
C16_FailedSaveKeepsTimer ==
    /\ [][ (HandleStop(FALSE) /\ SaveAttempted)
            => /\ UNCHANGED <<state, data, currentSessionElapsed, snapshot,
                              sessions>>
               /\ focus'.confirm ]_vars
    /\ []( (focus.failed /\ state # "idle") => SaveAttempted )
    /\ [][ (HandleStop(TRUE) /\ SaveAttempted /\ focus.failed)
            => /\ \E id \in DOMAIN sessions' \ DOMAIN sessions :
                    /\ sessions'[id].duration = currentSessionElapsed
                    /\ sessions'[id].cardId = data.card
               /\ state' = "idle" ]_vars
    /\ [][ ((\E saveOk \in BOOLEAN : HandleStop(saveOk))
             /\ state # "idle" /\ state' = "idle")
            => (~SaveAttempted \/ DOMAIN sessions' # DOMAIN sessions) ]_vars

\* C16 witness: a save failed, the stop action was retried and the retry
\* persisted the session and reset the timer
C16_Witness ==
    /\ lastOp = "saved"
    /\ focus.failed
    /\ TimerCleared
    /\ \E id \in DOMAIN sessions :
         sessions[id].duration >= MIN_SESSION_DURATION

\* C17: the stop flow never writes a session shorter than
\* MIN_SESSION_DURATION: stopping a run with sessionElapsed below it leaves
\* the store unchanged and resets the timer; no stored duration is negative.
C17_NoShortSession ==
    /\ [](\A id \in DOMAIN sessions :
            sessions[id].duration >= MIN_SESSION_DURATION)
    /\ [][ ((\E saveOk \in BOOLEAN : HandleStop(saveOk))
             /\ data # NoData
             /\ currentSessionElapsed < MIN_SESSION_DURATION)
            => (sessions' = sessions /\ TimerCleared') ]_vars

\* C17 witness: a run of at least one second and less than the minimum was
\* stopped with an account configured; nothing was stored, the timer is reset
C17_Witness ==
    /\ lastOp = "tooShort"
    /\ runMs >= MsPerSecond
    /\ sessions = <<>>
    /\ TimerCleared

\* the countdown of the focus route has expired at its target, with an
\* account configured
Expired ==
    /\ state = "completed"
    /\ mode = "countdown"
    /\ data # NoData
    /\ currentSessionElapsed = FocusTarget
    /\ currentSessionElapsed >= MIN_SESSION_DURATION
    /\ AccountConfigured

\* a session with the duration of the countdown target is stored
TargetSaved ==
    \E id \in DOMAIN sessions : sessions[id].duration = FocusTarget

\* C28: when the countdown has expired, dialog open or not, a user who
\* keeps pressing the stop button and confirming gets the session saved
\* with the target as duration (unless the timer is discarded).
C28_ExpiredCanBeSaved ==
    Expired ~> (TargetSaved \/ state = "idle")

\* with the dialog closed at expiry no action of the focus route saves the
\* session: each step keeps the store and leaves the state only for idle
ExpiredClosedIsTrap ==
    [][ (Expired /\ ~focus.confirm)
         => /\ sessions' = sessions
            /\ \/ (Expired' /\ ~focus'.confirm)
               \/ state' = "idle" ]_vars

\* with the dialog open at expiry the confirm button saves the session
ExpiredOpenSaves ==
    [][ (Expired /\ HandleStop(TRUE)) => (TargetSaved' /\ TimerCleared') ]_vars

(***************************************************************************)
(* Properties of the session repository                                    *)
(***************************************************************************)

\* C18: accountOps.remove(id) deletes the account row and nothing else: the
\* other accounts and the session table are unchanged; the sessions of the
\* removed account are not returned by getAll(), and are still returned by
\* getAll(id) and by getById.
C18_RemoveKeepsSessions ==
    [][ \A id \in AccountSlugs :
          AccountRemove(id)
            => /\ DOMAIN accounts' = DOMAIN accounts \ {id}
               /\ \A k \in DOMAIN accounts' : accounts'[k] = accounts[k]
               /\ sessions' = sessions
               /\ LET mine == {k \in DOMAIN sessions :
                                 sessions[k].accountId = id}
                  IN /\ IdsOf(SessionGetAll(accounts', sessions', "null"))
                          \cap mine = {}
                     /\ IdsOf(SessionGetAll(accounts', sessions', id)) = mine
                     /\ \A k \in mine :
                          SessionGetById(sessions', k) = <<sessions[k]>>
      ]_vars

\* C18 witness: an account with a stored session was removed while another
\* account, with a session of its own, is active
C18_Witness ==
    /\ observed.op = "remove"
    /\ observed.count = 1
    /\ observed.arg \notin DOMAIN accounts
    /\ \E k \in DOMAIN sessions : sessions[k].accountId = observed.arg
    /\ \E a \in ActiveIds(accounts) :
         \E k \in DOMAIN sessions : sessions[k].accountId = a

\* C19: sessionOps.deleteAll() removes exactly the sessions of the active
\* account and leaves every other session as it is; with no active account
\* it changes nothing.
C19_DeleteAllOnlyActiveAccount ==
    [][ SessionDeleteAll
         => LET active == AccountGetActive(accounts)
            IN IF active = <<>>
               THEN sessions' = sessions
               ELSE /\ DOMAIN sessions' =
                         {k \in DOMAIN sessions :
                            sessions[k].accountId # active[1].id}
                    /\ \A k \in DOMAIN sessions' : sessions'[k] = sessions[k]
      ]_vars

\* C19 witness: deleteAll() removed a session of the active account and kept
\* the session of an account that is no longer in the store
C19_Witness ==
    /\ observed.op = "deleteAll"
    /\ observed.count >= 1
    /\ observed.arg \in ActiveIds(accounts)
    /\ \E k \in DOMAIN sessions : sessions[k].accountId \notin DOMAIN accounts

\* C20: markAsSynced(id) sets synced on the session with that id and changes
\* nothing else, creating no row for an unknown id; afterwards getUnsynced()
\* does not return that session and returns exactly the unsynced sessions of
\* the active account.
C20_MarkAsSynced ==
    [][ \A id \in SessionIds :
          SessionMarkAsSynced(id)
            => /\ DOMAIN sessions' = DOMAIN sessions
               /\ \A k \in DOMAIN sessions :
                    sessions'[k] = IF k = id
                                   THEN [sessions[k] EXCEPT !.synced = TRUE]
                                   ELSE sessions[k]
               /\ LET unsynced == SessionGetUnsynced(accounts', sessions')
                      active == AccountGetActive(accounts')
                  IN /\ id \notin IdsOf(unsynced)
                     /\ Len(unsynced) = Cardinality(IdsOf(unsynced))
                     /\ Range(unsynced) =
                          IF active = <<>> THEN {}
                          ELSE {sessions'[k] :
                                  k \in {j \in DOMAIN sessions' :
                                           /\ sessions'[j].accountId = active[1].id
                                           /\ ~sessions'[j].synced}}
      ]_vars

\* C20 witness: a session of the active account was marked as synced while
\* another session of that account is still unsynced
C20_Witness ==
    /\ observed.op = "markAsSynced"
    /\ observed.sid \in DOMAIN sessions
    /\ sessions[observed.sid].synced
    /\ sessions[observed.sid].accountId \in ActiveIds(accounts)
    /\ \E k \in DOMAIN sessions :
         /\ ~sessions[k].synced
         /\ sessions[k].accountId = sessions[observed.sid].accountId

(***************************************************************************)
(* Properties of the account mutations                                     *)
(***************************************************************************)

\* C30: after useRemoveAccount has removed the active account while other
\* accounts remain, exactly one account is active and it is a remaining
\* account with the greatest lastUsed; removing an account that is not
\* active leaves the active accounts as they are; removing the last account
\* leaves no active account.  The mutation removes the row of the account
\* and no other row.
C30_RemoveAccountSwitches ==
    [][ \A accountId \in MutationSlugs :
          RemoveAccountMutation(accountId)
            => LET rest == DOMAIN accounts \ {accountId}
               IN /\ DOMAIN accounts' = rest
                  /\ IF accountId \in ActiveIds(accounts)
                     THEN IF rest # {}
                          THEN \E k \in rest :
                                 /\ ActiveIds(accounts') = {k}
                                 /\ \A j \in rest :
                                      accounts[j].lastUsed
                                        <= accounts[k].lastUsed
                          ELSE ActiveIds(accounts') = {}
                     ELSE ActiveIds(accounts') = ActiveIds(accounts)
      ]_vars

\* C30 witness: the active account "a" was removed while "b" and "c"
\* remained, and "c", stored after "b" and used later, is now the one
\* active account
C30_Witness ==
    /\ observed.op = "removeAccount"
    /\ observed.arg = "a"
    /\ observed.during
    /\ DOMAIN accounts = {"b", "c"}
    /\ accounts["b"].lastUsed < now
    /\ ActiveIds(accounts) = {"c"}

====
